---- MODULE Spec2Model ----
(***************************************************************************)
(* bartib: the command dispatch of src/main.rs (run_subcommand,            *)
(* create_processors, apply_date_presets, parse_duration) over the         *)
(* activity log engine of the bartib library crate (controller::           *)
(* manipulation, data::getter, data::processor).  The library crate is     *)
(* described by spec.md; main.rs is the source.                            *)
(*                                                                         *)
(* A date-time is a number of minutes since the first minute of day 0,     *)
(* a date is a day number, a time of day is a minute of the day.           *)
(* An Option<T> is a sequence of at most one element.                      *)
(***************************************************************************)
EXTENDS Integers, Sequences, FiniteSets, TLC

VARIABLES
    file,     \* the log resource: a sequence of day buckets
    now,      \* the local clock
    last,     \* the last command run and its status
    out,      \* what the last read-only command handed to the display
    started,  \* the number of activities started so far
    inv,      \* per concurrent invocation: its position, the log it loaded, its command
    hist,     \* the loads and saves of the concurrent invocations, in order
    arg       \* the last --round token parsed and the parser's result

vars == <<file, now, last, out, started, inv, hist, arg>>

\* ---------------------------------------------------------------- bounds
MaxDay == 1
DayLen == 2
MaxStarts == 2
MaxNumber == 2
MaxRound == 2
MaxQueryActs == 2
MaxLen == 3

Projects == {"p1", "p2"}
Descs == {"d1", "d2"}

\* ---------------------------------------------------------------- Option
None == <<>>
Some(x) == <<x>>
OrElse(o, d) == IF o = None THEN d ELSE o[1]
Opt(S) == {None} \cup {Some(x) : x \in S}

\* ---------------------------------------------------------------- dates
DateOf(dt) == dt \div DayLen
AndTime(date, t) == date * DayLen + t
MaxNow == (MaxDay + 1) * DayLen - 1

\* ---------------------------------------------------------------- Log Store
Activity(project, description, start_time, end_time) ==
    [project |-> project, description |-> description,
     start |-> start_time, end |-> end_time]

IsRunning(a) == a.end = None

RECURSIVE Flatten(_)
Flatten(log) ==
    IF log = <<>> THEN <<>> ELSE Head(log).acts \o Flatten(Tail(log))

running_activities(log) == SelectSeq(Flatten(log), IsRunning)

Ok(log) == [status |-> "Ok", log |-> log]
Err(kind, log) == [status |-> kind, log |-> log]

\* ---------------------------------------------------------------- Manipulation Engine
\* log with a appended to the bucket of its start date, the bucket created in
\* chronological position when absent
AppendActivity(log, a) ==
    LET d == DateOf(a.start)
        idx == {i \in DOMAIN log : log[i].date = d}
        k == Cardinality({i \in DOMAIN log : log[i].date < d})
    IN  IF idx /= {}
        THEN LET i == CHOOSE i \in idx : TRUE
             IN  [log EXCEPT ![i].acts = Append(@, a)]
        ELSE SubSeq(log, 1, k) \o <<[date |-> d, acts |-> <<a>>]>>
                \o SubSeq(log, k + 1, Len(log))

start(log, project, description, time, clock) ==
    Ok(AppendActivity(log, Activity(project, description, OrElse(time, clock), None)))

\* mutant: no check of at_time against the starts
stop_unchecked(log, time, clock) ==
    LET at == OrElse(time, clock)
        StopOne(a) == IF IsRunning(a) THEN [a EXCEPT !.end = Some(at)] ELSE a
    IN  Ok([i \in DOMAIN log |->
                [log[i] EXCEPT !.acts = [j \in DOMAIN @ |-> StopOne(@[j])]]])

stop(log, time, clock) ==
    LET at == OrElse(time, clock)
        run == running_activities(log)
        StopOne(a) == IF IsRunning(a) THEN [a EXCEPT !.end = Some(at)] ELSE a
    IN  IF \E i \in DOMAIN run : at < run[i].start
        THEN Err("LogicError", log)
        ELSE Ok([i \in DOMAIN log |->
                [log[i] EXCEPT !.acts = [j \in DOMAIN @ |-> StopOne(@[j])]]])

\* a bucket left without activities is dropped
cancel(log) ==
    LET NotRunning(a) == ~IsRunning(a)
        kept == [i \in DOMAIN log |->
                    [log[i] EXCEPT !.acts = SelectSeq(@, NotRunning)]]
        NonEmpty(b) == b.acts /= <<>>
    IN  Ok(SelectSeq(kept, NonEmpty))

PairOf(a) == <<a.project, a.description>>

RECURSIVE DistinctRecent(_, _)
\* the (project, description) pairs of flat, most recent first, each once
DistinctRecent(flat, seen) ==
    IF flat = <<>> THEN <<>>
    ELSE LET a == flat[Len(flat)]
             rest == SubSeq(flat, 1, Len(flat) - 1)
         IN  IF PairOf(a) \in seen
             THEN DistinctRecent(rest, seen)
             ELSE <<PairOf(a)>> \o DistinctRecent(rest, seen \cup {PairOf(a)})

continue_last_activity(log, project, description, time, number, clock) ==
    LET pairs == DistinctRecent(Flatten(log), {})
    IN  IF number >= Len(pairs)
        THEN Err("NotFound", log)
        ELSE start(log, OrElse(project, pairs[number + 1][1]),
                   OrElse(description, pairs[number + 1][2]), time, clock)

RECURSIVE SetFlat(_, _, _)
\* log with the k-th activity (in recording order) replaced by a
SetFlat(log, k, a) ==
    IF k <= Len(Head(log).acts)
    THEN <<[Head(log) EXCEPT !.acts[k] = a]>> \o Tail(log)
    ELSE <<Head(log)>> \o SetFlat(Tail(log), k - Len(Head(log).acts), a)

\* the position (in recording order) of the most recently started running activity
MostRecentRunning(flat) ==
    CHOOSE k \in DOMAIN flat :
        /\ IsRunning(flat[k])
        /\ \A j \in DOMAIN flat : IsRunning(flat[j]) =>
              \/ flat[j].start < flat[k].start
              \/ (flat[j].start = flat[k].start /\ j <= k)

change(log, project, description, time) ==
    LET flat == Flatten(log)
    IN  IF running_activities(log) = <<>>
        THEN Err("NoRunningActivity", log)
        ELSE LET k == MostRecentRunning(flat)
                 a == flat[k]
                 b == Activity(OrElse(project, a.project),
                               OrElse(description, a.description),
                               OrElse(time, a.start), a.end)
             IN  Ok(SetFlat(log, k, b))

\* ---------------------------------------------------------------- Query Filter
ActivityFilter(number, from, to, date, project) ==
    [number_of_activities |-> number, from_date |-> from, to_date |-> to,
     date |-> date, project |-> project]

Matches(a, filter) ==
    /\ filter.from_date = None \/ DateOf(a.start) >= filter.from_date[1]
    /\ filter.to_date = None \/ DateOf(a.start) <= filter.to_date[1]
    /\ filter.date = None \/ DateOf(a.start) = filter.date[1]
    /\ filter.project = None \/ a.project = filter.project[1]

get_activities(log, filter) ==
    LET Pass(a) == Matches(a, filter)
        all == SelectSeq(Flatten(log), Pass)
    IN  IF filter.number_of_activities = None
           \/ filter.number_of_activities[1] >= Len(all)
        THEN all
        ELSE SubSeq(all, Len(all) - filter.number_of_activities[1] + 1, Len(all))

\* ---------------------------------------------------------------- Processor Pipeline
\* mutant: both ends rounded to the nearest multiple
RoundProcessor_nearest(a, round) ==
    [a EXCEPT !.start = round * ((@ + round \div 2) \div round),
              !.end = IF @ = None THEN None
                      ELSE Some(round * ((@[1] + round \div 2) \div round))]

RoundProcessor(a, round) ==
    [a EXCEPT !.start = round * (@ \div round),
              !.end = IF @ = None THEN None
                      ELSE Some(round * ((@[1] + round - 1) \div round))]

RECURSIVE process(_, _)
\* the processors applied in order to every activity
process(processors, acts) ==
    IF processors = <<>> THEN acts
    ELSE process(Tail(processors),
                 [k \in DOMAIN acts |-> RoundProcessor(acts[k], Head(processors).round)])

list(log, filter, do_group_activities, processors) ==
    LET selected == get_activities(log, filter)
    IN  [selected |-> selected, rows |-> process(processors, selected),
         grouped |-> do_group_activities]

\* ---------------------------------------------------------------- main.rs
DaysPerWeek == 7
MinutesPerHour == 60
DurationMinutes(n) == n
DurationHours(n) == n * MinutesPerHour

\* day 0 is a Monday
NumDaysFromMonday(date) == date % DaysPerWeek

apply_date_presets(filter, today, yesterday, current_week, last_week, clock) ==
    LET day == DateOf(clock)
        monday == day - NumDaysFromMonday(day)
        f1 == IF today THEN [filter EXCEPT !.date = Some(day)] ELSE filter
        f2 == IF yesterday THEN [f1 EXCEPT !.date = Some(day - 1)] ELSE f1
        f3 == IF current_week
              THEN [f2 EXCEPT !.from_date = Some(monday),
                              !.to_date = Some(monday + 6)]
              ELSE f2
    IN  IF last_week
        THEN [f3 EXCEPT !.from_date = Some(monday - DaysPerWeek),
                        !.to_date = Some(monday - DaysPerWeek + 6)]
        ELSE f3

ActivityFilterNew(number, from, to, date, project, today, yesterday, current_week, last_week, clock) ==
    apply_date_presets(ActivityFilter(number, from, to, date, project),
                       today, yesterday, current_week, last_week, clock)

\* the number of bytes of the UTF-8 encoding of a character
ByteLen(c) == IF c = "e'" THEN 2 ELSE 1

RECURSIVE StrLen(_)
\* str::len: the length in bytes
StrLen(str) == IF str = <<>> THEN 0 ELSE ByteLen(Head(str)) + StrLen(Tail(str))

Digits == {"0", "1", "2"}
DigitValue(c) == CASE c = "0" -> 0 [] c = "1" -> 1 [] c = "2" -> 2

RECURSIVE DecimalValue(_)
DecimalValue(str) ==
    IF str = <<>> THEN 0
    ELSE 10 * DecimalValue(SubSeq(str, 1, Len(str) - 1)) + DigitValue(str[Len(str)])

\* i64::from_str: an optional sign, then one digit or more; None for anything else
\* (a value beyond i64 is an error too: it takes more digits than a token holds here)
ParseI64(str) ==
    LET signed == str /= <<>> /\ str[1] \in {"+", "-"}
        digits == IF signed THEN Tail(str) ELSE str
    IN  IF digits = <<>> \/ \E k \in DOMAIN digits : digits[k] \notin Digits
        THEN None
        ELSE Some(IF signed /\ str[1] = "-" THEN 0 - DecimalValue(digits)
                  ELSE DecimalValue(digits))

\* duration_string.len() - 1 overflows usize for the empty string: a panic with
\* overflow checks, and without them an index beyond the end, where split_at
\* panics; split_at also panics when the index is inside a character
parse_duration(duration_string) ==
    IF StrLen(duration_string) = 0
    THEN [tag |-> "Panic", minutes |-> 0]
    ELSE IF ByteLen(duration_string[Len(duration_string)]) /= 1
    THEN [tag |-> "Panic", minutes |-> 0]
    ELSE LET number_string == SubSeq(duration_string, 1, Len(duration_string) - 1)
             duration_unit == duration_string[Len(duration_string)]
             number == ParseI64(number_string)
         IN  IF number = None THEN [tag |-> "Err", minutes |-> 0]
             ELSE CASE duration_unit = "m" ->
                         [tag |-> "Ok", minutes |-> DurationMinutes(number[1])]
                    [] duration_unit = "h" ->
                         [tag |-> "Ok", minutes |-> DurationHours(number[1])]
                    [] OTHER -> [tag |-> "Err", minutes |-> 0]

create_processors(round) ==
    IF round = None THEN <<>> ELSE <<[round |-> round[1]]>>

\* mutant: from and to passed in the wrong order
RunList_swapped(cmd, log, clock) ==
    LET filter == ActivityFilterNew(cmd.number, cmd.to, cmd.from, cmd.date, cmd.project,
                                    cmd.today, cmd.yesterday, cmd.current_week,
                                    cmd.last_week, clock)
        processors == create_processors(cmd.round)
        do_group_activities == ~cmd.no_grouping /\ filter.date = None
    IN  list(log, filter, do_group_activities, processors)

RunList(cmd, log, clock) ==
    LET filter == ActivityFilterNew(cmd.number, cmd.from, cmd.to, cmd.date, cmd.project,
                                    cmd.today, cmd.yesterday, cmd.current_week,
                                    cmd.last_week, clock)
        processors == create_processors(cmd.round)
        do_group_activities == ~cmd.no_grouping /\ filter.date = None
    IN  list(log, filter, do_group_activities, processors)

\* time.map(|t| Local::now().date_naive().and_time(t))
CombineWithToday(time, clock) ==
    IF time = None THEN None ELSE Some(AndTime(DateOf(clock), time[1]))

\* mutant: project and description passed in the wrong order
RunStart_swapped(cmd, log, clock) ==
    start(log, cmd.description, cmd.project, CombineWithToday(cmd.time, clock), clock)

RunStart(cmd, log, clock) ==
    start(log, cmd.project, cmd.description, CombineWithToday(cmd.time, clock), clock)

\* mutant: the overrides passed in the wrong order
RunChange_swapped(cmd, log, clock) ==
    change(log, cmd.description, cmd.project, CombineWithToday(cmd.time, clock))

RunChange(cmd, log, clock) ==
    change(log, cmd.project, cmd.description, CombineWithToday(cmd.time, clock))

\* mutant: the number argument dropped for its default
RunContinue_default(cmd, log, clock) ==
    continue_last_activity(log, cmd.project, cmd.description,
                           CombineWithToday(cmd.time, clock), 0, clock)

RunContinue(cmd, log, clock) ==
    continue_last_activity(log, cmd.project, cmd.description,
                           CombineWithToday(cmd.time, clock), cmd.number, clock)

\* mutant: the --time argument not passed on
RunStop_notime(cmd, log, clock) == stop(log, None, clock)

RunStop(cmd, log, clock) ==
    stop(log, CombineWithToday(cmd.time, clock), clock)

\* mutant: the Cancel arm calls stop
RunCancel_stops(cmd, log, clock) == stop(log, None, clock)

RunCancel(cmd, log, clock) == cancel(log)

run_subcommand(cmd, log, clock) ==
    CASE cmd.kind = "Start" -> RunStart(cmd, log, clock)
      [] cmd.kind = "Change" -> RunChange(cmd, log, clock)
      [] cmd.kind = "Continue" -> RunContinue(cmd, log, clock)
      [] cmd.kind = "Stop" -> RunStop(cmd, log, clock)
      [] cmd.kind = "Cancel" -> RunCancel(cmd, log, clock)

\* ---------------------------------------------------------------- commands
TimeOpts == Opt(0 .. DayLen - 1)
StartCmds == [kind : {"Start"}, project : Projects, description : Descs, time : TimeOpts]
ChangeCmds == [kind : {"Change"}, project : Opt(Projects), description : Opt(Descs),
               time : TimeOpts]
ContinueCmds == [kind : {"Continue"}, project : Opt(Projects), description : Opt(Descs),
                 time : TimeOpts, number : 0 .. MaxNumber]
StopCmds == [kind : {"Stop"}, time : TimeOpts]
CancelCmds == [kind : {"Cancel"}]

Days == 0 .. MaxDay
\* the date selections clap's conflicts_with_all lets through
Selections ==
    [from : Opt(Days), to : Opt(Days), date : {None}, today : {FALSE},
     yesterday : {FALSE}, current_week : {FALSE}, last_week : {FALSE}]
    \cup [from : {None}, to : {None}, date : {Some(d) : d \in Days}, today : {FALSE},
          yesterday : {FALSE}, current_week : {FALSE}, last_week : {FALSE}]
    \cup {[from |-> None, to |-> None, date |-> None, today |-> p = 1,
           yesterday |-> p = 2, current_week |-> p = 3, last_week |-> p = 4] :
            p \in 1 .. 4}
Rounds == {DurationMinutes(n) : n \in 1 .. MaxRound}
            \cup {DurationHours(n) : n \in 1 .. MaxRound}
ListCmds ==
    {[kind |-> "List", from |-> s.from, to |-> s.to, date |-> s.date, today |-> s.today,
      yesterday |-> s.yesterday, current_week |-> s.current_week,
      last_week |-> s.last_week, round |-> r, project |-> p, no_grouping |-> g,
      number |-> n] :
        s \in Selections, r \in Opt(Rounds), p \in Opt(Projects), g \in BOOLEAN,
        n \in Opt(0 .. MaxNumber)}

NumActs(log) == Len(Flatten(log))
NumRunning(log) == Len(running_activities(log))

\* ---------------------------------------------------------------- state machine
InitLogs ==
    { <<>>,
      <<[date |-> MaxDay, acts |-> <<Activity("p2", "d2", AndTime(MaxDay, 0),
                                              Some(AndTime(MaxDay, 0)))>>]>> }

Init ==
    /\ file \in InitLogs
    /\ now = 0
    /\ last = [op |-> "none", status |-> "Ok", n |-> 0]
    /\ out = <<>>
    /\ started = 0
    /\ inv = <<>>
    /\ hist = <<>>
    /\ arg = <<>>

\* one invocation: load, operate, save when the operation succeeded
Outcome(cmd) == run_subcommand(cmd, file, now)

Invoke(cmd, n) ==
    LET res == Outcome(cmd)
    IN  /\ file' = res.log
        /\ last' = [op |-> cmd.kind, status |-> res.status, n |-> n]
        /\ out' = <<>>
        /\ started' = IF cmd.kind \in {"Start", "Continue"} /\ res.status = "Ok"
                      THEN started + 1 ELSE started
        /\ UNCHANGED <<now, inv, hist, arg>>

DoStart(cmd) ==
    /\ started < MaxStarts
    /\ Invoke(cmd, NumRunning(file))

DoContinue(cmd) ==
    /\ started < MaxStarts
    /\ Invoke(cmd, cmd.number)

DoChange(cmd) == Invoke(cmd, NumRunning(file))

DoStop(cmd) == Invoke(cmd, NumRunning(file))

DoCancel(cmd) == Invoke(cmd, NumRunning(file))

Tick ==
    /\ now < MaxNow
    /\ now' = now + 1
    /\ UNCHANGED <<file, last, out, started, inv, hist, arg>>

Next ==
    \/ \E cmd \in StartCmds : DoStart(cmd)
    \/ \E cmd \in ContinueCmds : DoContinue(cmd)
    \/ \E cmd \in ChangeCmds : DoChange(cmd)
    \/ \E cmd \in StopCmds : DoStop(cmd)
    \/ \E cmd \in CancelCmds : DoCancel(cmd)
    \/ Tick

Spec == Init /\ [][Next]_vars

\* ---------------------------------------------------------------- queries
QueryActs ==
    {a \in {Activity(p, "d1", s, e) :
                p \in Projects, s \in 0 .. MaxNow, e \in Opt(0 .. MaxNow)} :
        a.end = None \/ a.end[1] = MaxNow}

RECURSIVE BuildLog(_)
BuildLog(acts) ==
    IF acts = <<>> THEN <<>>
    ELSE AppendActivity(BuildLog(SubSeq(acts, 1, Len(acts) - 1)), acts[Len(acts)])

QueryLogs ==
    {BuildLog(acts) : acts \in UNION {[1 .. n -> QueryActs] : n \in 0 .. MaxQueryActs}}

InitQuery ==
    /\ file \in QueryLogs
    /\ now = MaxNow
    /\ last = [op |-> "none", status |-> "Ok", n |-> 0]
    /\ out = <<>>
    /\ started = 0
    /\ inv = <<>>
    /\ hist = <<>>
    /\ arg = <<>>

\* one read-only invocation: load, filter, process, display; nothing is saved
DoList(cmd) ==
    /\ last.op = "none"
    /\ out' = RunList(cmd, file, now)
    /\ last' = [op |-> "List", status |-> "Ok", n |-> 0, cmd |-> cmd]
    /\ UNCHANGED <<file, now, started, inv, hist, arg>>

NextQuery == \E cmd \in ListCmds : DoList(cmd)

SpecQuery == InitQuery /\ [][NextQuery]_vars

\* ---------------------------------------------------------------- concurrent invocations
Procs == {1, 2}

RaceCmds ==
    StartCmds \cup StopCmds \cup CancelCmds
    \cup {c \in ChangeCmds : c.time = None}
    \cup {c \in ContinueCmds : c.project = None /\ c.description = None /\ c.time = None}

RaceLogs ==
    { <<>>,
      <<[date |-> 0, acts |-> <<Activity("p1", "d1", 0, None)>>]>>,
      <<[date |-> 0, acts |-> <<Activity("p1", "d1", 0, Some(1)),
                                Activity("p2", "d2", 1, None)>>]>> }

InitRace ==
    /\ file \in RaceLogs
    /\ now = MaxNow
    /\ last = [op |-> "none", status |-> "Ok", n |-> 0]
    /\ out = <<>>
    /\ started = 0
    /\ inv = [p \in Procs |-> [pc |-> "idle", mem |-> <<>>, cmd |-> [kind |-> "none"]]]
    /\ hist = <<[ev |-> "init", log |-> file]>>
    /\ arg = <<>>

\* mutant: the operation runs on the resource as it is when it saves
Loaded_fresh(p) == file

\* the log invocation p operates on: the one it loaded
Loaded(p) == inv[p].mem

\* invocation p of cmd begins: the whole resource is read
Load(p, cmd) ==
    /\ inv[p].pc = "idle"
    /\ inv' = [inv EXCEPT ![p] = [pc |-> "loaded", mem |-> file, cmd |-> cmd]]
    /\ hist' = Append(hist, [ev |-> "load", p |-> p])
    /\ UNCHANGED <<file, now, last, out, started, arg>>

\* invocation p operates on what it loaded and, when the operation succeeded,
\* rewrites the whole resource
OperateAndSave(p) ==
    /\ inv[p].pc = "loaded"
    /\ LET res == run_subcommand(inv[p].cmd, Loaded(p), now)
       IN  /\ file' = IF res.status = "Ok" THEN res.log ELSE file
           /\ hist' = Append(hist, [ev |-> IF res.status = "Ok" THEN "save" ELSE "fail",
                                    p |-> p])
           /\ last' = [op |-> inv[p].cmd.kind, status |-> res.status, n |-> 0]
    /\ inv' = [inv EXCEPT ![p].pc = "done"]
    /\ UNCHANGED <<now, out, started, arg>>

NextRace ==
    \/ \E p \in Procs : \E cmd \in RaceCmds : Load(p, cmd)
    \/ \E p \in Procs : OperateAndSave(p)

SpecRace == InitRace /\ [][NextRace]_vars

\* ---------------------------------------------------------------- --round tokens
Alphabet == Digits \cup {"-", "m", "h", "x", "e'"}
Tokens == UNION {[1 .. n -> Alphabet] : n \in 0 .. MaxLen}

InitParse ==
    /\ file = <<>>
    /\ now = 0
    /\ last = [op |-> "none", status |-> "Ok", n |-> 0]
    /\ out = <<>>
    /\ started = 0
    /\ inv = <<>>
    /\ hist = <<>>
    /\ arg = [parsed |-> FALSE]

\* clap hands the --round token to the value parser
ParseRound(token) ==
    /\ ~arg.parsed
    /\ arg' = [parsed |-> TRUE, token |-> token, result |-> parse_duration(token)]
    /\ UNCHANGED <<file, now, last, out, started, inv, hist>>

NextParse == \E token \in Tokens : ParseRound(token)

SpecParse == InitParse /\ [][NextParse]_vars

\* ---------------------------------------------------------------- claims
\* Each claim about an operation is stated of Outcome(cmd), the log and status
\* an invocation of cmd in the current state leaves (Invoke writes it to file).

\* the date-time a command's optional time of day stands for
AtTime(time) == IF time = None THEN now ELSE AndTime(DateOf(now), time[1])

Dates(log) == [i \in DOMAIN log |-> log[i].date]
Shape(log) == [i \in DOMAIN log |-> Len(log[i].acts)]
HasEnd(a) == a.end /= None
Sorted(log) == \A i, j \in DOMAIN log : i < j => log[i].date < log[j].date

StopPost(cmd, res) ==
    LET before == Flatten(file)
        after == Flatten(res.log)
    IN  res.status = "Ok" =>
          /\ Dates(res.log) = Dates(file)
          /\ Shape(res.log) = Shape(file)
          /\ \A k \in DOMAIN before :
                /\ HasEnd(after[k])
                /\ ~HasEnd(before[k]) =>
                      after[k] = [before[k] EXCEPT !.end = Some(AtTime(cmd.time))]
                /\ HasEnd(before[k]) => after[k] = before[k]

\* C1: after a successful stop(at_time) no activity is running: every activity
\* that was running, in whatever day bucket, has end = at_time, and every
\* activity that already had an end is unchanged.
C1_StopEndsEveryRunning == \A cmd \in StopCmds : StopPost(cmd, Outcome(cmd))

\* two activities in two day buckets were running, a third had an end
C1_Witness ==
    /\ last.op = "Stop" /\ last.status = "Ok" /\ last.n >= 2
    /\ Len(file) >= 2 /\ NumActs(file) >= 3
    /\ \A i \in DOMAIN file : \E j \in DOMAIN file[i].acts :
          file[i].acts[j].end = Some(now) /\ file[i].acts[j].start < now

CancelPost(cmd, res) ==
    /\ res.status = "Ok"
    /\ Flatten(res.log) = SelectSeq(Flatten(file), HasEnd)
    /\ \A k \in DOMAIN Flatten(res.log) : HasEnd(Flatten(res.log)[k])

\* C2: cancel removes exactly the running activities: the log afterwards is the
\* log before with every activity without an end deleted, the others unchanged
\* and in the same order, and no removed activity is kept with an end.
C2_CancelRemovesExactlyRunning == \A cmd \in CancelCmds : CancelPost(cmd, Outcome(cmd))

\* two running activities were removed and one with an end was kept
C2_Witness ==
    /\ last.op = "Cancel" /\ last.status = "Ok" /\ last.n >= 2
    /\ NumActs(file) >= 1
    /\ started = MaxStarts

EndNotBeforeStart(log) ==
    \A k \in DOMAIN Flatten(log) :
        HasEnd(Flatten(log)[k]) => Flatten(log)[k].end[1] >= Flatten(log)[k].start

StopTooEarly(cmd) ==
    \E k \in DOMAIN Flatten(file) :
        /\ IsRunning(Flatten(file)[k])
        /\ AtTime(cmd.time) < Flatten(file)[k].start

\* C3: in every reachable state every activity with an end has end >= start,
\* and a stop(at_time) with at_time earlier than the start of a running
\* activity fails and sets no end.
C3_EndNotBeforeStart ==
    /\ EndNotBeforeStart(file)
    /\ \A cmd \in StopCmds :
          StopTooEarly(cmd) => (Outcome(cmd).status /= "Ok" /\ Outcome(cmd).log = file)

\* a stop was refused: an activity started later than the stop time is still running
C3_Witness ==
    /\ last.op = "Stop" /\ last.status = "LogicError"
    /\ \E k \in DOMAIN Flatten(file) :
          IsRunning(Flatten(file)[k]) /\ Flatten(file)[k].start > AndTime(DateOf(now), 0)
    /\ \E k \in DOMAIN Flatten(file) : HasEnd(Flatten(file)[k])

BucketOf(log, d) ==
    IF \E i \in DOMAIN log : log[i].date = d
    THEN log[CHOOSE i \in DOMAIN log : log[i].date = d].acts
    ELSE <<>>

StartPost(cmd, res) ==
    LET at == AtTime(cmd.time)
        d == DateOf(at)
        new == Activity(cmd.project, cmd.description, at, None)
        Other(b) == b.date /= d
    IN  /\ res.status = "Ok"
        /\ BucketOf(res.log, d) = Append(BucketOf(file, d), new)
        /\ SelectSeq(res.log, Other) = SelectSeq(file, Other)
        /\ Sorted(file) => Sorted(res.log)
        /\ NumActs(res.log) = NumActs(file) + 1
        /\ NumRunning(res.log) = NumRunning(file) + 1

\* C4: start appends exactly one new running activity (that project and
\* description, start = at_time, no end) to the day bucket of at_time and changes
\* no existing activity, so the number of running activities grows by one.
C4_StartAppendsOneRunning == \A cmd \in StartCmds : StartPost(cmd, Outcome(cmd))

\* an activity was started while another was running: two run at once
C4_Witness ==
    /\ last.op = "Start" /\ last.status = "Ok" /\ last.n >= 1
    /\ NumRunning(file) >= 2

HistoryPairs(log) == {PairOf(Flatten(log)[k]) : k \in DOMAIN Flatten(log)}
LastUse(log, q) ==
    CHOOSE k \in DOMAIN Flatten(log) :
        /\ PairOf(Flatten(log)[k]) = q
        /\ \A j \in DOMAIN Flatten(log) : PairOf(Flatten(log)[j]) = q => j <= k
\* the number of distinct pairs used more recently than q
Rank(log, q) ==
    Cardinality({r \in HistoryPairs(log) : LastUse(log, r) > LastUse(log, q)})

\* nth: the pairs of the history with cmd.number distinct pairs more recent
ContinuePost(cmd, nth, res) ==
    LET at == AtTime(cmd.time)
        d == DateOf(at)
        Other(b) == b.date /= d
    IN  /\ cmd.number > Cardinality(HistoryPairs(file)) =>
              (res.status = "NotFound" /\ res.log = file)
        /\ res.status /= "Ok" => (res.status = "NotFound" /\ res.log = file)
        /\ res.status = "Ok" =>
              \E q \in nth :
                  /\ BucketOf(res.log, d) =
                        Append(BucketOf(file, d),
                               Activity(IF cmd.project = None THEN q[1] ELSE cmd.project[1],
                                        IF cmd.description = None THEN q[2]
                                        ELSE cmd.description[1],
                                        at, None))
                  /\ SelectSeq(res.log, Other) = SelectSeq(file, Other)

\* C5: continue_last with index n starts a running activity at at_time whose
\* (project, description) is the n-th most recent distinct pair of the history
\* (0 = most recent), each supplied override replacing its field; an index beyond
\* the number of distinct pairs fails with NotFound and adds nothing.
C5_ContinueNthDistinct ==
    \A number \in 0 .. MaxNumber :
        LET nth == {q \in HistoryPairs(file) : Rank(file, q) = number}
        IN  \A cmd \in ContinueCmds :
                cmd.number = number => ContinuePost(cmd, nth, Outcome(cmd))

\* index >= 1 continued: the new running activity is not the most recent pair's
C5_Witness ==
    /\ last.op = "Continue" /\ last.status = "Ok" /\ last.n >= 1
    /\ Cardinality(HistoryPairs(file)) >= 2
    /\ NumRunning(file) >= 1

ChangePost(cmd, res) ==
    LET before == Flatten(file)
        after == Flatten(res.log)
    IN  IF NumRunning(file) = 0
        THEN res.status = "NoRunningActivity" /\ res.log = file
        ELSE /\ res.status = "Ok"
             /\ Dates(res.log) = Dates(file)
             /\ Shape(res.log) = Shape(file)
             /\ \E k \in DOMAIN before :
                  /\ IsRunning(before[k])
                  /\ \A j \in DOMAIN before :
                        IsRunning(before[j]) => before[j].start <= before[k].start
                  /\ \A j \in DOMAIN before : j /= k => after[j] = before[j]
                  /\ after[k].project =
                        (IF cmd.project = None THEN before[k].project ELSE cmd.project[1])
                  /\ after[k].description =
                        (IF cmd.description = None THEN before[k].description
                         ELSE cmd.description[1])
                  /\ after[k].start =
                        (IF cmd.time = None THEN before[k].start ELSE AtTime(cmd.time))
                  /\ after[k].end = None

\* C6: change fails with NoRunningActivity and leaves the log unchanged when
\* nothing is running; otherwise it modifies only the most recently started
\* running activity and overwrites only the supplied fields.
C6_ChangeOnlyMostRecentRunning == \A cmd \in ChangeCmds : ChangePost(cmd, Outcome(cmd))

\* a change with two running activities and a third with an end
C6_Witness ==
    /\ last.op = "Change" /\ last.status = "Ok" /\ last.n >= 2
    /\ NumActs(file) >= 3
    /\ \E j, k \in DOMAIN Flatten(file) :
          /\ IsRunning(Flatten(file)[j]) /\ IsRunning(Flatten(file)[k])
          /\ Flatten(file)[j].start < Flatten(file)[k].start

\* the k-th smallest element of the set S of integers
Nth(S, k) == CHOOSE x \in S : Cardinality({y \in S : y < x}) = k - 1

Min(a, b) == IF a < b THEN a ELSE b

FilterPost(cmd, clock, res) ==
    LET flat == Flatten(file)
        day == DateOf(clock)
        monday == day - (day % 7)
        from == IF cmd.current_week THEN Some(monday)
                ELSE IF cmd.last_week THEN Some(monday - 7) ELSE cmd.from
        to == IF cmd.current_week THEN Some(monday + 6)
              ELSE IF cmd.last_week THEN Some(monday - 1) ELSE cmd.to
        date == IF cmd.today THEN Some(day)
                ELSE IF cmd.yesterday THEN Some(day - 1) ELSE cmd.date
        Pass(a) ==
            /\ from = None \/ DateOf(a.start) >= from[1]
            /\ to = None \/ DateOf(a.start) <= to[1]
            /\ date = None \/ DateOf(a.start) = date[1]
            /\ cmd.project = None \/ a.project = cmd.project[1]
        idx == {k \in DOMAIN flat : Pass(flat[k])}
        total == Cardinality(idx)
        len == IF cmd.number = None THEN total ELSE Min(cmd.number[1], total)
    IN  /\ Len(res.selected) = len
        /\ \A i \in 1 .. len : res.selected[i] = flat[Nth(idx, total - len + i)]

\* C7: the filter returns exactly the activities satisfying the conjunction of
\* its from, to, date and project criteria, in recording order; with a count the
\* result has at most count items and is the suffix of the unrestricted result.
C7_FilterConjunctionAndSuffix ==
    last.op = "List" => FilterPost(last.cmd, now, out)

\* a count cut a result spanning two day buckets, under a project criterion
C7_Witness ==
    /\ last.op = "List"
    /\ last.cmd.number = Some(1) /\ last.cmd.project /= None /\ last.cmd.from /= None
    /\ Len(out.selected) = 1
    /\ Len(file) = 2
    /\ \A k \in DOMAIN Flatten(file) : Flatten(file)[k].project = last.cmd.project[1]
    /\ out.selected[1] = Flatten(file)[2]

RoundPost(cmd, res) ==
    /\ Len(res.rows) = Len(res.selected)
    /\ \A k \in DOMAIN res.rows :
          /\ res.rows[k].start <= res.selected[k].start
          /\ HasEnd(res.rows[k]) = HasEnd(res.selected[k])
          /\ HasEnd(res.selected[k]) => res.rows[k].end[1] >= res.selected[k].end[1]
          /\ res.rows[k].project = res.selected[k].project
          /\ res.rows[k].description = res.selected[k].description

EventAt(ev, p) ==
    IF \E k \in DOMAIN hist : hist[k].ev = ev /\ hist[k].p = p
    THEN CHOOSE k \in DOMAIN hist : hist[k].ev = ev /\ hist[k].p = p
    ELSE 0

Saved(p) == EventAt("save", p) /= 0
AllDone == \A p \in Procs : inv[p].pc = "done"
After(cmd, log) ==
    LET res == run_subcommand(cmd, log, now)
    IN  IF res.status = "Ok" THEN res.log ELSE log

\* q saved between p's load and p's save
Overlapped(p, q) ==
    /\ Saved(p) /\ Saved(q)
    /\ EventAt("load", p) < EventAt("save", q)
    /\ EventAt("save", q) < EventAt("save", p)

\* q was over before p began
Sequential(p, q) == EventAt("load", p) > EventAt("load", q) + 1

LastWriterWins ==
    \A p, q \in Procs : (p /= q /\ AllDone) =>
        /\ Overlapped(p, q) => file = After(inv[p].cmd, hist[1].log)
        /\ (Sequential(p, q) /\ EventAt("load", q) /= 0) =>
              file = After(inv[p].cmd, After(inv[q].cmd, hist[1].log))

\* C9: when two invocations overlap the last writer wins: the resource holds
\* the log the last saver computed from the log it loaded, and the other's
\* mutation, saved between that load and that save, is lost; when they do not
\* overlap no mutation is lost.
C9_LastWriterWins == LastWriterWins

\* both saved, overlapping, and the first saver's mutation is not in the resource
C9_Witness ==
    /\ AllDone
    /\ \E p, q \in Procs :
          /\ p /= q /\ Overlapped(p, q)
          /\ inv[q].cmd.kind = "Start"
          /\ file /= After(inv[p].cmd, After(inv[q].cmd, hist[1].log))
          /\ \A k \in DOMAIN Flatten(file) :
                Flatten(file)[k].project /= inv[q].cmd.project

IsIntegerToken(str) ==
    \E sign \in {<<>>, <<"-">>} : \E n \in 1 .. MaxLen : \E d \in [1 .. n -> Digits] :
        str = sign \o d
IntegerOf(str) ==
    IF str[1] = "-" THEN 0 - DecimalValue(Tail(str)) ELSE DecimalValue(str)

\* C10: parse_duration returns Ok(n minutes) for '<integer>m', Ok(n hours) for
\* '<integer>h', and an Err value, never a panic, for every other string,
\* the empty string included.
C10_ParseDurationNeverPanics ==
    arg.parsed =>
        LET str == arg.token
            body == SubSeq(str, 1, Len(str) - 1)
        IN  IF str /= <<>> /\ str[Len(str)] \in {"m", "h"} /\ IsIntegerToken(body)
            THEN arg.result =
                    [tag |-> "Ok",
                     minutes |-> IF str[Len(str)] = "m" THEN IntegerOf(body)
                                 ELSE 60 * IntegerOf(body)]
            ELSE arg.result.tag = "Err"

====
